---- MODULE Spec2Model ----
(***************************************************************************)
(* tcp-port-used: check() probes one TCP port with one client socket;      *)
(* waitForStatus() polls check() on a retry timer and races the polling    *)
(* against one deadline timer.                                             *)
(*                                                                         *)
(* The model follows Node's run-to-completion execution: a timer callback, *)
(* a socket event listener and a promise reaction each run as one step.    *)
(* Promise reactions (.then handlers) are microtasks: they are queued in   *)
(* jobs, and no timer, socket event or clock step happens while jobs is    *)
(* not empty.  Time is a discrete clock in milliseconds; an armed timer    *)
(* fires at its expiry, before the clock moves past it.  The TCP handshake *)
(* is atomic: a socket's connect / ECONNREFUSED event reports the port's   *)
(* status at the moment the event is emitted.                              *)
(***************************************************************************)
EXTENDS Integers, Sequences, FiniteSets, TLC

(***************************************************************************)
(* Bounds of the model.                                                    *)
(***************************************************************************)
\* the clock advances in single milliseconds up to MaxTime; beyond it the
\* clock only jumps to the expiry of the next armed timer
MaxTime == 4
\* number of direct check() calls the caller makes
MaxChecks == 2
\* number of probes a wait session starts before the model stops following it
MaxProbes == 4

(***************************************************************************)
(* Program constants (src/index.js:13-15).                                 *)
(***************************************************************************)
TIMEOUT == 2000
RETRY_TIME == 250
LOCALHOST == "127.0.0.1"

(***************************************************************************)
(* JavaScript values: t is the typeof tag, n the number, s the string (of  *)
(* an Error: its message), code the code property of an Error.             *)
(***************************************************************************)
Undef == [t |-> "undefined", n |-> 0, s |-> "", code |-> ""]

Num(n) == [t |-> "number", n |-> n, s |-> "", code |-> ""]

Str(s) == [t |-> "string", n |-> 0, s |-> s, code |-> ""]

Bool(b) == [t |-> "boolean", n |-> IF b THEN 1 ELSE 0, s |-> "", code |-> ""]

\* new Error(message), and a socket error carrying a code
Error(message) == [t |-> "error", n |-> 0, s |-> message, code |-> ""]

SocketError(code) == [t |-> "error", n |-> 0, s |-> "connect " \o code, code |-> code]

\* decimal digits of a natural number, as util.inspect prints a number
Digit(d) ==
  CASE d = 0 -> "0" [] d = 1 -> "1" [] d = 2 -> "2" [] d = 3 -> "3"
    [] d = 4 -> "4" [] d = 5 -> "5" [] d = 6 -> "6" [] d = 7 -> "7"
    [] d = 8 -> "8" [] OTHER -> "9"

RECURSIVE Digits(_)
Digits(n) == IF n < 10 THEN Digit(n) ELSE Digits(n \div 10) \o Digit(n % 10)

\* util.inspect(value)
inspect(v) ==
  CASE v.t = "number" -> IF v.n < 0 THEN "-" \o Digits(0 - v.n) ELSE Digits(v.n)
    [] v.t = "string" -> "'" \o v.s \o "'"
    [] v.t = "boolean" -> IF v.n = 1 THEN "true" ELSE "false"
    [] OTHER -> "undefined"

\* a port test without the upper limit
isPort_noUpperLimit(v) == v.t = "number" /\ v.n >= 0

\* is2 predicates as index.js uses them
isPort(v) == v.t = "number" /\ v.n >= 0 /\ v.n <= 65535

\* a test of inUse that lets a missing value pass
isBool_orMissing(v) == v.t \in {"boolean", "undefined"}

isBool(v) == v.t = "boolean"

isPositiveInt(v) == v.t = "number" /\ v.n > 0

(***************************************************************************)
(* Inputs the caller may pass.                                             *)
(***************************************************************************)
PortArgs == {Num(44204), Num(0 - 1), Num(65536), Str("hello"), Undef}

HostArgs == {Undef, Str("some.host.com")}

InUseArgs == {Bool(TRUE), Bool(FALSE), Undef}

RetryArgs == {Num(1), Num(2), Num(0), Undef}

TimeOutArgs == {Num(2), Num(3), Undef}

\* codes of the socket errors other than ECONNREFUSED
OtherCodes == {"EHOSTUNREACH", "ENOTFOUND"}

(***************************************************************************)
(* State.                                                                  *)
(***************************************************************************)
VARIABLES
  now,        \* the clock, in milliseconds
  listening,  \* TRUE iff a server listens on the probed port
  timers,     \* Node's armed timers: records [id, cb, at]
  nextId,     \* the next timer handle setTimeout returns
  checks,     \* the check() calls made so far, in call order
  jobs,       \* the microtask queue: indices into checks whose promise
              \* settled and whose doCheck reaction has not run yet
  called,     \* TRUE once waitForStatus has been called
  api,        \* the exported function the caller called for the session
  caller,     \* the caller's options object: the shape of the call, the
              \* object as the caller passed it (given), whether opts is
              \* that very object (shared) or a copy of it, and what the
              \* object holds now while it is not opts (current)
  opts,       \* waitForStatus: opts
  timeoutId,  \* waitForStatus: timeoutId (0 while undefined)
  retryId,    \* waitForStatus: retryId (0 while undefined)
  timedOut,   \* waitForStatus: timedOut
  deferred,   \* waitForStatus: the outer promise, [state, value]
  settleCalls, \* number of deferred.resolve / deferred.reject calls made
  callAt,     \* time of the waitForStatus call
  changedAt,  \* time of the last change of listening
  observed    \* TRUE iff a probe of the session was answered (connect or
              \* ECONNREFUSED) since the last change of listening

vars == <<now, listening, timers, nextId, checks, jobs, called, api, caller, opts,
          timeoutId, retryId, timedOut, deferred, settleCalls, callAt,
          changedAt, observed>>

sessionVars == <<called, api, caller, opts, timeoutId, retryId, timedOut, deferred,
                 settleCalls, callAt>>

Pending == [state |-> "pending", value |-> Undef]

Fulfilled(v) == [state |-> "fulfilled", value |-> v]

Rejected(e) == [state |-> "rejected", value |-> e]

NoEvent == [name |-> "none", err |-> Undef]

\* a call with positional arguments: the caller holds no options object
NoObject ==
  [shape |-> "args", shared |-> FALSE,
   given |-> [port |-> Undef, host |-> Undef, inUse |-> Undef,
              retryTimeMs |-> Undef, timeOutMs |-> Undef],
   current |-> [port |-> Undef, host |-> Undef, inUse |-> Undef,
                retryTimeMs |-> Undef, timeOutMs |-> Undef]]

\* the options object a the caller passed
Object(a, shared) ==
  [shape |-> "obj", shared |-> shared, given |-> a, current |-> a]

Init ==
  /\ now = 0
  /\ listening \in BOOLEAN
  /\ timers = {}
  /\ nextId = 1
  /\ checks = <<>>
  /\ jobs = <<>>
  /\ called = FALSE
  /\ api = "none"
  /\ caller = NoObject
  /\ opts = [port |-> Undef, host |-> Undef, inUse |-> Undef,
             retryTimeMs |-> Undef, timeOutMs |-> Undef]
  /\ timeoutId = 0
  /\ retryId = 0
  /\ timedOut = FALSE
  /\ deferred = Pending
  /\ settleCalls = 0
  /\ callAt = 0
  /\ changedAt = 0
  /\ observed = FALSE

(***************************************************************************)
(* Helpers of both operations.                                             *)
(***************************************************************************)
\* makeOptionsObj(port, host, inUse, retryTimeMs, timeOutMs)
makeOptionsObj(port, host, inUse, retryTimeMs, timeOutMs) ==
  [port |-> port, host |-> host, inUse |-> inUse,
   retryTimeMs |-> retryTimeMs, timeOutMs |-> timeOutMs]

\* deferred.resolve / deferred.reject: a promise settles once, a later call
\* leaves it as it is
Settle(p, result) == IF p.state = "pending" THEN result ELSE p

\* clearTimeout(id)
clearTimeout(ts, id) == {t \in ts : t.id # id}

\* a setTimeout that arms nothing
setTimeout_lost(ts, id, cb, ms) == ts

\* setTimeout(cb, ms) at time now, returning handle id
setTimeout(ts, id, cb, ms) == ts \cup {[id |-> id, cb |-> cb, at |-> now + ms]}

(***************************************************************************)
(* check(port, host).                                                      *)
(***************************************************************************)
\* a property the caller's object does not have
Absent == [t |-> "absent", n |-> 0, s |-> "", code |-> ""]

\* Object.assign({host: LOCALHOST}, is.obj(port) ? port : makeOptionsObj(port, host)):
\* an own property overrides the default, also when its value is undefined
checkOpts(shape, port, host) ==
  IF shape = "obj"
    THEN [port |-> IF port = Absent THEN Undef ELSE port,
          host |-> IF host = Absent THEN Str(LOCALHOST) ELSE host]
    ELSE [port |-> port, host |-> host]

\* the clock's reading, taken for the probes of a wait session
stamp(owner) == IF owner = "session" THEN now ELSE 0 - 1

\* the error of an invalid port
invalidPort(port) == Error("invalid port: " \o inspect(port))

\* a check that gives up at once, without an event of its socket
check_givesUp(owner, shape, port, host) ==
  LET o == checkOpts(shape, port, host) IN
  [owner |-> owner, port |-> o.port, host |-> o.host,
   sock |-> IF isPort(o.port) THEN "destroyed" ELSE "none",
   listeners |-> {}, event |-> NoEvent,
   promise |-> Rejected(IF isPort(o.port) THEN Error("timeout")
                                           ELSE invalidPort(o.port)),
   calls |-> 1, settledWhen |-> "none",
   startedAt |-> stamp(owner), answeredAt |-> stamp(owner)]

\* the check() call up to its return: either the promise is rejected and no
\* socket exists, or a socket with both once-listeners is connecting.
\* calls counts the deferred.resolve / deferred.reject calls of this check,
\* settledWhen is the state the socket was in when the first one was made,
\* startedAt the time of the call and answeredAt the time at which the
\* promise was settled (-1 while it is pending).
check(owner, shape, port, host) ==
  LET o == checkOpts(shape, port, host) IN
  IF ~isPort(o.port)
    THEN [owner |-> owner, port |-> o.port, host |-> o.host, sock |-> "none",
          listeners |-> {}, event |-> NoEvent,
          promise |-> Rejected(invalidPort(o.port)),
          calls |-> 1, settledWhen |-> "none",
          startedAt |-> stamp(owner), answeredAt |-> stamp(owner)]
    ELSE [owner |-> owner, port |-> o.port, host |-> o.host,
          sock |-> "connecting", listeners |-> {"connect", "error"},
          event |-> NoEvent, promise |-> Pending,
          calls |-> 0, settledWhen |-> "none",
          startedAt |-> stamp(owner), answeredAt |-> 0 - 1]

\* what onConnectCb passes to the promise
onConnectResult == Fulfilled(Bool(TRUE))

\* an onErrorCb that takes every error for connection refused
onErrorResult_alwaysFree(err) == Fulfilled(Bool(FALSE))

\* what onErrorCb(err) passes to the promise
onErrorResult(err) ==
  IF err.code = "ECONNREFUSED" THEN Fulfilled(Bool(FALSE)) ELSE Rejected(err)

\* a cleanUp that leaves the socket and its listeners as they are
checkCleanUp_nothing(c) == c

\* check.cleanUp: listeners removed, socket ended, destroyed and unreferenced
checkCleanUp(c) == [c EXCEPT !.listeners = {}, !.sock = "destroyed"]

\* client.once(name, cb): the listener is removed when its event arrives
once(c, ev) == [c EXCEPT !.listeners = @ \ {ev.name}, !.event = ev]

\* deferred.resolve / deferred.reject of a check
settleCheck(c, result) ==
  [c EXCEPT !.promise = Settle(@, result),
            !.calls = @ + 1,
            !.settledWhen = IF c.calls = 0 THEN c.sock ELSE @,
            !.answeredAt = IF c.calls = 0 THEN stamp(c.owner) ELSE @]

\* onConnectCb / onErrorCb: the promise is settled, then cleanUp is called
listener(c, result) == checkCleanUp(settleCheck(c, result))

\* a socket event reaches its once-listener: the listener settles the
\* promise and tears the socket down; a session's reaction becomes a job
Emit(i, ev, result) ==
  /\ jobs = <<>>
  /\ i \in 1..Len(checks)
  /\ checks[i].sock = "connecting"
  /\ ev.name \in checks[i].listeners
  /\ checks' = [checks EXCEPT ![i] = listener(once(@, ev), result)]
  /\ jobs' = IF checks[i].owner = "session" /\ checks[i].promise.state = "pending"
              THEN Append(jobs, i) ELSE jobs
  /\ observed' = IF checks[i].owner = "session" /\ result.state = "fulfilled"
                   THEN TRUE ELSE observed
  /\ UNCHANGED <<now, listening, timers, nextId, changedAt>>
  /\ UNCHANGED sessionVars

\* the socket connects: a server listens on the port
OnConnectCb(i) ==
  /\ listening
  /\ Emit(i, [name |-> "connect", err |-> Undef], onConnectResult)

\* the socket fails: refused when nothing listens, or any other error
OnErrorCb(i, code) ==
  /\ code = "ECONNREFUSED" => ~listening
  /\ Emit(i, [name |-> "error", err |-> SocketError(code)],
          onErrorResult(SocketError(code)))

\* a direct call of check by the caller
Check(shape, port, host) ==
  /\ jobs = <<>>
  /\ Cardinality({i \in 1..Len(checks) : checks[i].owner = "caller"}) < MaxChecks
  /\ shape = "args" => port # Absent /\ host # Absent
  /\ checks' = Append(checks, check("caller", shape, port, host))
  /\ UNCHANGED <<now, listening, timers, nextId, jobs, changedAt, observed>>
  /\ UNCHANGED sessionVars

(***************************************************************************)
(* The environment: the port's status and the clock.                       *)
(***************************************************************************)
\* a server starts or stops listening on the port
PortChange ==
  /\ listening' = ~listening
  /\ changedAt' = now
  /\ observed' = FALSE
  /\ UNCHANGED <<now, timers, nextId, checks, jobs>>
  /\ UNCHANGED sessionVars

\* one millisecond passes; no armed timer is overdue
Tick ==
  /\ jobs = <<>>
  /\ now < MaxTime
  /\ \A t \in timers : t.at > now
  /\ now' = now + 1
  /\ UNCHANGED <<listening, timers, nextId, checks, jobs, changedAt, observed>>
  /\ UNCHANGED sessionVars

\* time passes up to the expiry of the next armed timer
Jump ==
  /\ jobs = <<>>
  /\ timers # {}
  /\ \A t \in timers : t.at > now
  /\ \E t \in timers :
       /\ \A u \in timers : t.at <= u.at
       /\ now' = t.at
  /\ UNCHANGED <<listening, timers, nextId, checks, jobs, changedAt, observed>>
  /\ UNCHANGED sessionVars

(***************************************************************************)
(* waitForStatus(port, host, inUse, retryTimeMs, timeOutMs).               *)
(***************************************************************************)
\* defaults that replace both intervals when either one is unusable
normalize_together(o) ==
  IF isPositiveInt(o.retryTimeMs) /\ isPositiveInt(o.timeOutMs)
    THEN o
    ELSE [o EXCEPT !.retryTimeMs = Num(RETRY_TIME), !.timeOutMs = Num(TIMEOUT)]

\* the defaults of the retry interval and of the timeout
normalize(o) ==
  [o EXCEPT !.retryTimeMs = IF isPositiveInt(@) THEN @ ELSE Num(RETRY_TIME),
            !.timeOutMs = IF isPositiveInt(@) THEN @ ELSE Num(TIMEOUT)]

\* a cleanUp that forgets the retry timer
cleanUp_deadlineOnly(ts, tid, rid) ==
  IF tid # 0 THEN clearTimeout(ts, tid) ELSE ts

\* a cleanUp that forgets the deadline timer
cleanUp_retryOnly(ts, tid, rid) ==
  IF rid # 0 THEN clearTimeout(ts, rid) ELSE ts

\* a cleanUp that clears every timer of the process
cleanUp_everyTimer(ts, tid, rid) == {}

\* waitForStatus.cleanUp: both handles are cleared when they are set
cleanUp(ts, tid, rid) ==
  LET a == IF tid # 0 THEN clearTimeout(ts, tid) ELSE ts
  IN  IF rid # 0 THEN clearTimeout(a, rid) ELSE a

\* reactions that never look at timedOut
Discarded_never == FALSE

\* if (timedOut) return; at the head of both reactions of doCheck
Discarded == timedOut

\* a comparison that accepts every probe result
desired_any(used, o) == TRUE

\* an inverted comparison
desired_negated(used, o) == used # o.inUse

\* used === opts.inUse
desired(used, o) == used = o.inUse

\* a retry timer armed with the timeout instead of the retry interval
armRetry_timeOut(ts, id, o) == setTimeout(ts, id, "retry", o.timeOutMs.n)

\* a retry interval counted from the start of the probe whose result is
\* being delivered
armRetry_fromStart(ts, id, o) ==
  ts \cup {[id |-> id, cb |-> "retry",
            at |-> checks[Head(jobs)].startedAt + o.retryTimeMs.n]}

\* a reaction that gives up instead of arming the retry timer
armRetry_never(ts, id, o) == ts

\* retryId = setTimeout(() => doCheck(), opts.retryTimeMs)
armRetry(ts, id, o) == setTimeout(ts, id, "retry", o.retryTimeMs.n)

\* a doCheck that starts no probe
DoCheck_noProbe(o) == checks' = checks /\ jobs' = jobs

\* doCheck: check(opts.port, opts.host) is called and the two reactions are
\* attached; when check returns a rejected promise the reaction is queued
DoCheck(o) ==
  LET c == check("session", "args", o.port, o.host) IN
  /\ checks' = Append(checks, c)
  /\ jobs' = IF c.promise.state = "pending" THEN jobs
                                            ELSE Append(jobs, Len(checks) + 1)

\* waitForStatus from line 157 on, with o the options object: the call up
\* to its return
Session(o) ==
  /\ ~called
  /\ jobs = <<>>
  /\ called' = TRUE
  /\ callAt' = now
  /\ IF ~isBool(o.inUse)
       THEN /\ deferred' = Settle(deferred, Rejected(Error("inUse must be a boolean")))
            /\ settleCalls' = settleCalls + 1
            /\ opts' = o
            /\ UNCHANGED <<timers, nextId, timeoutId, checks, jobs>>
       ELSE /\ opts' = normalize(o)
            /\ timeoutId' = nextId
            /\ timers' = setTimeout(timers, nextId, "timeoutFunc", normalize(o).timeOutMs.n)
            /\ nextId' = nextId + 1
            /\ DoCheck(normalize(o))
            /\ UNCHANGED <<deferred, settleCalls>>
  /\ UNCHANGED <<now, listening, retryId, timedOut, changedAt, observed>>

\* waitForStatus(port, host, inUse, retryTimeMs, timeOutMs)
WaitForStatus(port, host, inUse, retryTimeMs, timeOutMs) ==
  /\ api' = "waitForStatus"
  /\ caller' = NoObject
  /\ Session(makeOptionsObj(port, host, inUse, retryTimeMs, timeOutMs))

\* waitForStatus(a) with an options object: opts = port, the caller's object
WaitForStatusObj(a) ==
  /\ api' = "waitForStatus"
  /\ caller' = Object(a, TRUE)
  /\ Session(a)

(***************************************************************************)
(* The wrappers.  a holds the caller's options object (shape "obj") or the *)
(* positional arguments (shape "args"); a property the object lacks reads  *)
(* as undefined, like an argument that is not passed.                      *)
(***************************************************************************)
\* waitUntilFreeOnHost: opts
waitUntilFreeOnHostOpts(shape, a) ==
  IF shape = "obj"
    THEN [a EXCEPT !.inUse = Bool(FALSE)]
    ELSE makeOptionsObj(a.port, a.host, Bool(FALSE), a.retryTimeMs, a.timeOutMs)

\* a waitUntilFree that lets the caller's properties win over its own
waitUntilFreeOpts_callerWins(shape, a) ==
  IF shape = "obj"
    THEN a
    ELSE makeOptionsObj(a.port, Str(LOCALHOST), Bool(FALSE), a.retryTimeMs, a.timeOutMs)

\* waitUntilFree: opts
waitUntilFreeOpts(shape, a) ==
  IF shape = "obj"
    THEN [a EXCEPT !.host = Str(LOCALHOST), !.inUse = Bool(FALSE)]
    ELSE makeOptionsObj(a.port, Str(LOCALHOST), Bool(FALSE), a.retryTimeMs, a.timeOutMs)

\* waitUntilUsedOnHost: opts
waitUntilUsedOnHostOpts(shape, a) ==
  IF shape = "obj"
    THEN [a EXCEPT !.inUse = Bool(TRUE)]
    ELSE makeOptionsObj(a.port, a.host, Bool(TRUE), a.retryTimeMs, a.timeOutMs)

\* a waitUntilUsed that keeps the caller's host
waitUntilUsedOpts_callerHost(shape, a) ==
  IF shape = "obj"
    THEN [a EXCEPT !.inUse = Bool(TRUE)]
    ELSE makeOptionsObj(a.port, Str(LOCALHOST), Bool(TRUE), a.retryTimeMs, a.timeOutMs)

\* waitUntilUsed: opts, which it passes to waitUntilUsedOnHost as an object
waitUntilUsedOpts(shape, a) ==
  waitUntilUsedOnHostOpts("obj",
    IF shape = "obj"
      THEN [a EXCEPT !.host = Str(LOCALHOST), !.inUse = Bool(TRUE)]
      ELSE makeOptionsObj(a.port, Str(LOCALHOST), Bool(TRUE), a.retryTimeMs, a.timeOutMs))

\* the arguments a call of the given shape can carry: inUse is no positional
\* parameter of a wrapper, host is none of waitUntilFree and waitUntilUsed
Passable(shape, a, hostParam) ==
  shape = "args" => a.inUse = Undef /\ (hostParam \/ a.host = Undef)

WaitUntilFreeOnHost(shape, a) ==
  /\ Passable(shape, a, TRUE)
  /\ api' = "waitUntilFreeOnHost"
  /\ caller' = IF shape = "obj" THEN Object(a, FALSE) ELSE NoObject
  /\ Session(waitUntilFreeOnHostOpts(shape, a))

WaitUntilFree(shape, a) ==
  /\ Passable(shape, a, FALSE)
  /\ api' = "waitUntilFree"
  /\ caller' = IF shape = "obj" THEN Object(a, FALSE) ELSE NoObject
  /\ Session(waitUntilFreeOpts(shape, a))

WaitUntilUsedOnHost(shape, a) ==
  /\ Passable(shape, a, TRUE)
  /\ api' = "waitUntilUsedOnHost"
  /\ caller' = IF shape = "obj" THEN Object(a, TRUE) ELSE NoObject
  /\ Session(waitUntilUsedOnHostOpts(shape, a))

WaitUntilUsed(shape, a) ==
  /\ Passable(shape, a, FALSE)
  /\ api' = "waitUntilUsed"
  /\ caller' = IF shape = "obj" THEN Object(a, FALSE) ELSE NoObject
  /\ Session(waitUntilUsedOpts(shape, a))

\* the deadline timer fires
TimeoutFunc ==
  /\ jobs = <<>>
  /\ \E t \in timers :
       /\ t.cb = "timeoutFunc"
       /\ t.at <= now
       /\ timedOut' = TRUE
       /\ timers' = cleanUp(timers \ {t}, timeoutId, retryId)
       /\ deferred' = Settle(deferred, Rejected(Error("timeout")))
       /\ settleCalls' = settleCalls + 1
  /\ UNCHANGED <<now, listening, nextId, checks, jobs, called, api, caller, opts,
                 timeoutId, retryId, callAt, changedAt, observed>>

\* the retry timer fires: the next probe starts
RetryFunc ==
  /\ jobs = <<>>
  /\ Cardinality({i \in 1..Len(checks) : checks[i].owner = "session"}) < MaxProbes
  /\ \E t \in timers :
       /\ t.cb = "retry"
       /\ t.at <= now
       /\ timers' = timers \ {t}
       /\ DoCheck(opts)
  /\ UNCHANGED <<now, listening, nextId, changedAt, observed>>
  /\ UNCHANGED sessionVars

\* doCheck's reaction to a probe that resolved to used
OnUsed ==
  /\ jobs # <<>>
  /\ checks[Head(jobs)].promise.state = "fulfilled"
  /\ jobs' = Tail(jobs)
  /\ LET used == checks[Head(jobs)].promise.value IN
       IF Discarded
         THEN UNCHANGED <<deferred, settleCalls, timers, retryId, nextId>>
         ELSE IF desired(used, opts)
           THEN /\ deferred' = Settle(deferred, Fulfilled(Undef))
                /\ settleCalls' = settleCalls + 1
                /\ timers' = cleanUp(timers, timeoutId, retryId)
                /\ UNCHANGED <<retryId, nextId>>
           ELSE /\ retryId' = nextId
                /\ timers' = armRetry(timers, nextId, opts)
                /\ nextId' = nextId + 1
                /\ UNCHANGED <<deferred, settleCalls>>
  /\ UNCHANGED <<now, listening, checks, called, api, caller, opts, timeoutId,
                 timedOut, callAt, changedAt, observed>>

\* doCheck's reaction to a probe that failed with err
OnError ==
  /\ jobs # <<>>
  /\ checks[Head(jobs)].promise.state = "rejected"
  /\ jobs' = Tail(jobs)
  /\ LET err == checks[Head(jobs)].promise.value IN
       IF Discarded
         THEN UNCHANGED <<deferred, settleCalls, timers>>
         ELSE /\ deferred' = Settle(deferred, Rejected(err))
              /\ settleCalls' = settleCalls + 1
              /\ timers' = cleanUp(timers, timeoutId, retryId)
  /\ UNCHANGED <<now, listening, nextId, checks, called, api, caller, opts,
                 timeoutId, retryId, timedOut, callAt, changedAt, observed>>

(***************************************************************************)
(* Specifications.                                                         *)
(***************************************************************************)
\* one wait session, its probes, the port and the clock
Next ==
  \/ /\ ~called
     /\ \E port \in PortArgs, host \in HostArgs, inUse \in InUseArgs,
           retryTimeMs \in RetryArgs, timeOutMs \in TimeOutArgs :
          WaitForStatus(port, host, inUse, retryTimeMs, timeOutMs)
  \/ TimeoutFunc
  \/ RetryFunc
  \/ OnUsed
  \/ OnError
  \/ \E i \in 1..Len(checks) : OnConnectCb(i)
  \/ \E i \in 1..Len(checks), code \in OtherCodes \cup {"ECONNREFUSED"} :
       OnErrorCb(i, code)
  \/ PortChange
  \/ Tick
  \/ Jump

Spec == Init /\ [][Next]_vars

\* one wait session in coarse time: the clock moves from one timer expiry
\* to the next
NextTimers ==
  \/ /\ ~called
     /\ \E port \in PortArgs, host \in HostArgs, inUse \in InUseArgs,
           retryTimeMs \in RetryArgs, timeOutMs \in TimeOutArgs :
          WaitForStatus(port, host, inUse, retryTimeMs, timeOutMs)
  \/ TimeoutFunc
  \/ RetryFunc
  \/ OnUsed
  \/ OnError
  \/ \E i \in 1..Len(checks) : OnConnectCb(i)
  \/ \E i \in 1..Len(checks), code \in OtherCodes \cup {"ECONNREFUSED"} :
       OnErrorCb(i, code)
  \/ PortChange
  \/ Jump

\* the wait session under Node's scheduling: time passes, a timer that has
\* expired runs its callback and a queued promise reaction runs.  Nothing
\* is assumed of the sockets: a probe may stay unanswered forever.
SpecTimers ==
  /\ Init /\ [][NextTimers]_vars
  /\ WF_vars(Jump)
  /\ WF_vars(TimeoutFunc)
  /\ WF_vars(RetryFunc)
  /\ WF_vars(OnUsed)
  /\ WF_vars(OnError)

\* direct calls of check, their sockets and the port
NextCheck ==
  \/ \E shape \in {"obj", "args"}, port \in PortArgs \cup {Absent},
        host \in HostArgs \cup {Absent} : Check(shape, port, host)
  \/ \E i \in 1..Len(checks) : OnConnectCb(i)
  \/ \E i \in 1..Len(checks), code \in OtherCodes \cup {"ECONNREFUSED"} :
       OnErrorCb(i, code)
  \/ PortChange

SpecCheck == Init /\ [][NextCheck]_vars

\* a connection attempt ends: the socket of check i emits connect or error
SocketEvent(i) ==
  \/ OnConnectCb(i)
  \/ \E code \in OtherCodes \cup {"ECONNREFUSED"} : OnErrorCb(i, code)

\* direct check calls whose connection attempts all end
SpecCheckFair ==
  SpecCheck /\ \A i \in 1..MaxChecks : WF_vars(SocketEvent(i))

\* the options objects and argument lists a caller may pass
Args ==
  [port : PortArgs, host : HostArgs, inUse : InUseArgs,
   retryTimeMs : RetryArgs \cup {Str("fast")},
   timeOutMs : TimeOutArgs \cup {Num(0 - 2), Str("2000")}]

\* one wait session started through any of the five exported functions;
\* time passes from one timer expiry to the next
NextWait ==
  \/ /\ ~called
     /\ \E a \in Args :
          WaitForStatus(a.port, a.host, a.inUse, a.retryTimeMs, a.timeOutMs)
  \/ /\ ~called
     /\ \E a \in Args : WaitForStatusObj(a)
  \/ /\ ~called
     /\ \E shape \in {"obj", "args"}, a \in Args : WaitUntilFreeOnHost(shape, a)
  \/ /\ ~called
     /\ \E shape \in {"obj", "args"}, a \in Args : WaitUntilFree(shape, a)
  \/ /\ ~called
     /\ \E shape \in {"obj", "args"}, a \in Args : WaitUntilUsedOnHost(shape, a)
  \/ /\ ~called
     /\ \E shape \in {"obj", "args"}, a \in Args : WaitUntilUsed(shape, a)
  \/ TimeoutFunc
  \/ RetryFunc
  \/ OnUsed
  \/ OnError
  \/ \E i \in 1..Len(checks) : OnConnectCb(i)
  \/ \E i \in 1..Len(checks), code \in OtherCodes \cup {"ECONNREFUSED"} :
       OnErrorCb(i, code)
  \/ PortChange
  \/ Jump

SpecWait == Init /\ [][NextWait]_vars

(***************************************************************************)
(* The caller's options object after the call.                             *)
(***************************************************************************)
\* the caller, or another operation that was handed the same object (as
\* waitUntilUsedOnHost, which sets inUse), assigns v to property f of the
\* object after the wait call has returned: the write reaches opts when
\* opts is that object
CallerWrites(f, v) ==
  /\ called
  /\ jobs = <<>>
  /\ caller.shape = "obj"
  /\ IF caller.shared
       THEN opts' = [opts EXCEPT ![f] = v] /\ UNCHANGED caller
       ELSE caller' = [caller EXCEPT !.current[f] = v] /\ UNCHANGED opts
  /\ UNCHANGED <<now, listening, timers, nextId, checks, jobs, called, api,
                 timeoutId, retryId, timedOut, deferred, settleCalls, callAt,
                 changedAt, observed>>

\* the options objects of the sessions below
SharedArgs ==
  [port : {Num(44204)}, host : {Str("some.host.com")},
   inUse : InUseArgs, retryTimeMs : {Num(1)}, timeOutMs : {Num(3)}]

\* one wait session called with an options object that is written to while
\* the session runs
NextShared ==
  \/ /\ ~called
     /\ \E a \in SharedArgs : WaitForStatusObj(a)
  \/ /\ ~called
     /\ \E a \in SharedArgs : WaitUntilFreeOnHost("obj", a)
  \/ /\ ~called
     /\ \E a \in SharedArgs : WaitUntilUsedOnHost("obj", a)
  \/ \E v \in {Bool(TRUE), Bool(FALSE)} : CallerWrites("inUse", v)
  \/ \E v \in {Num(44204), Num(65536)} : CallerWrites("port", v)
  \/ \E v \in {Str("some.host.com"), Str(LOCALHOST)} : CallerWrites("host", v)
  \/ \E v \in {Num(1), Num(2)} : CallerWrites("retryTimeMs", v)
  \/ TimeoutFunc
  \/ RetryFunc
  \/ OnUsed
  \/ OnError
  \/ \E i \in 1..Len(checks) : OnConnectCb(i)
  \/ \E i \in 1..Len(checks), code \in {"ECONNREFUSED", "EHOSTUNREACH"} :
       OnErrorCb(i, code)
  \/ Jump

SpecShared == Init /\ [][NextShared]_vars

(***************************************************************************)
(* Concurrent calls: a wait session, direct check calls and the timers of  *)
(* other calls in the same process.                                        *)
(***************************************************************************)
\* another call arms a timer of its own
OtherArm(ms) ==
  /\ jobs = <<>>
  /\ nextId <= 2
  /\ ~\E t \in timers : t.cb = "other"
  /\ timers' = setTimeout(timers, nextId, "other", ms)
  /\ nextId' = nextId + 1
  /\ UNCHANGED <<now, listening, checks, jobs, changedAt, observed>>
  /\ UNCHANGED sessionVars

\* the timer of another call fires
OtherFire ==
  /\ jobs = <<>>
  /\ \E t \in timers :
       /\ t.cb = "other"
       /\ t.at <= now
       /\ timers' = timers \ {t}
  /\ UNCHANGED <<now, listening, nextId, checks, jobs, changedAt, observed>>
  /\ UNCHANGED sessionVars

\* one wait session running while the caller makes direct check calls on
\* the same port and another call arms a timer; the port's status stays as
\* it is
NextBoth ==
  \/ /\ ~called
     /\ \E inUse \in InUseArgs :
          WaitForStatus(Num(44204), Str("some.host.com"), inUse, Num(1), Num(2))
  \/ TimeoutFunc
  \/ RetryFunc
  \/ OnUsed
  \/ OnError
  \/ Check("args", Num(44204), Str("some.host.com"))
  \/ \E i \in 1..Len(checks) : OnConnectCb(i)
  \/ \E i \in 1..Len(checks), code \in {"ECONNREFUSED", "EHOSTUNREACH"} :
       OnErrorCb(i, code)
  \/ OtherArm(2)
  \/ OtherFire
  \/ Jump

SpecBoth == Init /\ [][NextBoth]_vars

(***************************************************************************)
(* State functions the properties below read.                              *)
(***************************************************************************)
\* the probes of the wait session
SessionChecks == {i \in 1..Len(checks) : checks[i].owner = "session"}

\* the probes of the session that have not settled
InFlight == {i \in SessionChecks : checks[i].promise.state = "pending"}

RetryTimers == {t \in timers : t.cb = "retry"}

DeadlineTimers == {t \in timers : t.cb = "timeoutFunc"}

Settled == deferred.state # "pending"

TimeoutError == Rejected(Error("timeout"))

\* a session that passed the validation of inUse
Running == called /\ isBool(opts.inUse)

\* the port has the status the session waits for
StatusDesired == Bool(listening) = opts.inUse

\* the time at which the deadline timer expires
DeadlineAt == callAt + opts.timeOutMs.n

\* a reaction of doCheck runs in this step
Reaction == jobs # <<>> /\ jobs' = Tail(jobs)

(***************************************************************************)
(* Properties of the wait session.                                         *)
(***************************************************************************)
\* C1: the outer promise is settled at most once: over the whole session
\* at most one deferred.resolve / deferred.reject call is made, and the
\* promise is pending exactly as long as none was made.
SettledAtMostOnce ==
  /\ settleCalls <= 1
  /\ settleCalls = 0 <=> deferred.state = "pending"

\* a probe result equal to the desired status arrived after the deadline
\* had fired, and its reaction has run
LateMatchSeen ==
  /\ timedOut
  /\ settleCalls = 1
  /\ jobs = <<>>
  /\ \E i \in SessionChecks : checks[i].promise = Fulfilled(opts.inUse)

\* C2: once the session has settled no timer of it is armed, neither the
\* deadline timer nor a retry timer.
NoTimerAfterSettlement == Settled => timers = {}

\* the deadline fired while a retry timer was pending: every probe so far
\* was followed by a retry timer (handles 2, 3, ...), the last never fired
RetryClearedByTimeout ==
  /\ timedOut
  /\ Settled
  /\ timers = {}
  /\ SessionChecks # {}
  /\ nextId - 2 = Cardinality(SessionChecks)

\* C3: when the deadline timer fires the session is unsettled, and the
\* step marks it timed out, leaves no retry timer armed and rejects the
\* outer promise with the error 'timeout'.
TimeoutRejects ==
  [][TimeoutFunc =>
       /\ deferred.state = "pending"
       /\ timedOut'
       /\ RetryTimers' = {}
       /\ timers' = {}
       /\ deferred' = TimeoutError]_vars

\* the deadline fired while the first probe was still in flight
TimeoutDuringFirstProbe ==
  /\ timedOut
  /\ deferred = TimeoutError
  /\ Len(checks) = 1
  /\ InFlight = {1}

\* C4: the outer promise becomes fulfilled only in a step that delivers a
\* probe result equal to opts.inUse while the session is not timed out; the
\* step fulfils it with undefined and leaves no timer armed.
SuccessOnlyOnMatch ==
  [][deferred'.state = "fulfilled" /\ deferred.state # "fulfilled" =>
       /\ Reaction
       /\ checks[Head(jobs)].promise = Fulfilled(opts.inUse)
       /\ ~timedOut
       /\ deferred' = Fulfilled(Undef)
       /\ timers' = {}]_vars

\* the session succeeded after at least one retry
SuccessAfterRetry ==
  /\ deferred = Fulfilled(Undef)
  /\ retryId # 0
  /\ Len(checks) >= 2

\* C5: a probe result that differs from opts.inUse, delivered while the
\* session is not timed out, arms one retry timer that expires
\* opts.retryTimeMs later; a retry timer that fires starts the next probe;
\* and in every state at most one retry timer is armed, the one retryId names.
OneRetryTimer ==
  /\ [](/\ Cardinality(RetryTimers) <= 1
        /\ \A t \in RetryTimers : t.id = retryId)
  /\ [][(/\ Reaction
         /\ checks[Head(jobs)].promise.state = "fulfilled"
         /\ checks[Head(jobs)].promise.value # opts.inUse
         /\ ~timedOut)
        => RetryTimers' = {[id |-> retryId', cb |-> "retry",
                            at |-> now + opts.retryTimeMs.n]}]_vars
  /\ [][RetryFunc => /\ Len(checks') = Len(checks) + 1
                     /\ InFlight' = {Len(checks')}
                     /\ RetryTimers' = {}]_vars

\* a second retry timer is armed after the first one fired
SecondRetryArmed ==
  /\ RetryTimers # {}
  /\ Len(checks) = 2
  /\ retryId = 3

\* C6: once the session is timed out, a probe result or probe error that is
\* delivered changes nothing of the session: the outer promise is not
\* settled again, no timer is armed and no probe is started.
LateResultDiscarded ==
  [][timedOut =>
       /\ deferred' = deferred
       /\ settleCalls' = settleCalls
       /\ timers' = timers
       /\ retryId' = retryId
       /\ Len(checks') = Len(checks)]_vars

\* a probe error arrived after the deadline had fired, and its reaction ran
LateErrorSeen ==
  /\ timedOut
  /\ deferred = TimeoutError
  /\ jobs = <<>>
  /\ \E i \in SessionChecks : checks[i].promise.state = "rejected"

\* C7: a probe error delivered while the session is not timed out rejects
\* the outer promise with that same error and leaves no timer armed; the
\* failed probe stays the last probe of the session.
ProbeErrorEnds ==
  /\ [][(/\ Reaction
         /\ checks[Head(jobs)].promise.state = "rejected"
         /\ ~timedOut)
        => /\ deferred' = checks[Head(jobs)].promise
           /\ timers' = {}]_vars
  /\ []((Running /\ deferred.state = "rejected" /\ ~timedOut)
        => /\ SessionChecks # {}
           /\ checks[Len(checks)].promise = deferred
           /\ InFlight = {}
           /\ timers = {})

\* the second probe failed with a socket error and ended the session
ErrorOnSecondProbe ==
  /\ deferred = Rejected(SocketError("EHOSTUNREACH"))
  /\ Len(checks) = 2
  /\ now > callAt

\* C8 (as claimed): if the port takes the desired status at some time of the
\* timeout window, strictly before the deadline, and keeps it, the session
\* does not fail with 'timeout'.  Stated for the sessions in which every
\* probe was answered with a status, and answered before the status last
\* changed (no probe hangs or fails): no state has the session failed with
\* 'timeout' while the port has the desired status since a time of the
\* window.
ResolvesWhenStatusReachedInWindow ==
  ~(/\ Running
    /\ deferred = TimeoutError
    /\ StatusDesired
    /\ callAt <= changedAt
    /\ changedAt < DeadlineAt
    /\ \A i \in SessionChecks : checks[i].promise.state = "fulfilled"
    /\ ~observed)

\* C8 (amended): if the port has the desired status and a probe of the
\* session was answered (connect or ECONNREFUSED) since the status last
\* changed, while the session was not timed out, the session has resolved
\* successfully.
ResolvesWhenStatusObserved ==
  (Running /\ StatusDesired /\ observed /\ ~timedOut /\ jobs = <<>>)
    => deferred = Fulfilled(Undef)

\* the port took the desired status after the call and a later probe of
\* the session saw it
StatusChangeObserved ==
  /\ deferred = Fulfilled(Undef)
  /\ StatusDesired
  /\ observed
  /\ changedAt > callAt
  /\ Len(checks) >= 2

\* C9: while every probe of the session that has settled resolved to the
\* opposite of opts.inUse, the session has not succeeded; until the deadline
\* it is pending with the deadline timer armed and, between two probes, a
\* retry timer armed; the deadline timer fires opts.timeOutMs after the call
\* and from then on the session is rejected with 'timeout'.
AllMismatch ==
  \A i \in SessionChecks :
    checks[i].promise \in {Pending, Fulfilled(Bool(opts.inUse = Bool(FALSE)))}

TimeoutWhenNeverDesired ==
  /\ []((Running /\ AllMismatch) =>
          /\ deferred.state # "fulfilled"
          /\ Settled => deferred = TimeoutError /\ timedOut /\ now >= DeadlineAt
          /\ ~Settled =>
               /\ now <= DeadlineAt
               /\ DeadlineTimers = {[id |-> timeoutId, cb |-> "timeoutFunc",
                                     at |-> DeadlineAt]}
               /\ (InFlight = {} /\ jobs = <<>>) => RetryTimers # {})
  /\ [][TimeoutFunc => now = DeadlineAt]_vars

\* three probes all answered with the opposite status, then the timeout
TimeoutAfterThreeMismatches ==
  /\ deferred = TimeoutError
  /\ AllMismatch
  /\ InFlight = {}
  /\ Len(checks) >= 3

(***************************************************************************)
(* Properties of check.                                                    *)
(***************************************************************************)
\* C10: for every check call whose socket has emitted its event: a connect
\* event resolved the promise to true, an error event with code
\* ECONNREFUSED resolved it to false, and an error event with any other
\* code rejected it with the very error the socket emitted.
CheckOutcome ==
  \A i \in 1..Len(checks) :
    LET c == checks[i] IN
    /\ c.event.name = "connect" => c.promise = Fulfilled(Bool(TRUE))
    /\ (c.event.name = "error" /\ c.event.err.code = "ECONNREFUSED")
         => c.promise = Fulfilled(Bool(FALSE))
    /\ (c.event.name = "error" /\ c.event.err.code # "ECONNREFUSED")
         => c.promise = Rejected(c.event.err)

\* one check ended by a connect event, another by an error that is not
\* connection refused
ConnectAndOtherError ==
  \E i, j \in 1..Len(checks) :
    /\ checks[i].event.name = "connect"
    /\ checks[j].event.name = "error"
    /\ checks[j].event.err.code = "ENOTFOUND"
    /\ checks[j].promise.state = "rejected"

\* C11: a check call whose port is missing, not a number, negative or
\* greater than 65535 is rejected with the error 'invalid port: ' followed
\* by the inspected value, and never has a socket: none is created by the
\* call and none appears later.
InvalidPortMessage(port) ==
  CASE port = Num(0 - 1) -> "invalid port: -1"
    [] port = Num(65536) -> "invalid port: 65536"
    [] port = Str("hello") -> "invalid port: 'hello'"
    [] OTHER -> "invalid port: undefined"

OutOfRange(port) == port.t # "number" \/ port.n < 0 \/ port.n > 65535

InvalidPortRejected ==
  \A i \in 1..Len(checks) :
    OutOfRange(checks[i].port) =>
      /\ checks[i].promise = Rejected(Error(InvalidPortMessage(checks[i].port)))
      /\ checks[i].sock = "none"
      /\ checks[i].listeners = {}
      /\ checks[i].event = NoEvent

\* one call with a port above 65535 and one with a string were rejected
TwoInvalidPortsRejected ==
  \E i, j \in 1..Len(checks) :
    /\ checks[i].port = Num(65536)
    /\ checks[i].promise.state = "rejected"
    /\ checks[j].port = Str("hello")
    /\ checks[j].promise.state = "rejected"

(***************************************************************************)
(* Properties of the wrappers and of the validation in waitForStatus.      *)
(***************************************************************************)
\* C12: a session started with an invalid port and a boolean desired status,
\* through waitForStatus or any wrapper, is rejected with the error
\* 'invalid port: <value>' by the reaction to its first probe; it is never
\* timed out, never rejected with 'timeout', and no probe of it has a socket.
InvalidPortEndsSession ==
  (called /\ opts.inUse.t = "boolean" /\ OutOfRange(opts.port)) =>
    /\ ~timedOut
    /\ Len(checks) = 1
    /\ \A i \in 1..Len(checks) : checks[i].sock = "none"
    /\ IF jobs = <<>>
         THEN /\ deferred = Rejected(Error(InvalidPortMessage(opts.port)))
              /\ timers = {}
         ELSE deferred = Pending

\* waitUntilFree was called with the port 'hello' and has been rejected
WaitUntilFreeInvalidPort ==
  /\ api = "waitUntilFree"
  /\ deferred = Rejected(Error("invalid port: 'hello'"))

\* C13 (as claimed): a waitForStatus call with an invalid port fails without
\* a timer ever having been armed and without a socket.
NoResourceOnInvalidPort ==
  (called /\ OutOfRange(opts.port)) =>
    /\ timers = {}
    /\ timeoutId = 0
    /\ nextId = 1
    /\ \A i \in 1..Len(checks) : checks[i].sock = "none"

\* C13 (amended): a waitForStatus call with an invalid port never opens a
\* socket and never arms a retry timer; the only timer it arms is the
\* deadline timer, which is cleared, before any time has passed and before
\* it can fire, by the reaction that rejects the outer promise.
InvalidPortOnlyArmsDeadline ==
  (called /\ OutOfRange(opts.port)) =>
    /\ \A i \in 1..Len(checks) : checks[i].sock = "none"
    /\ retryId = 0
    /\ RetryTimers = {}
    /\ nextId <= 2
    /\ ~timedOut
    /\ jobs = <<>> => timers = {}
    /\ jobs # <<>> => now = callAt /\ DeadlineTimers = timers

\* the deadline timer of a call with an invalid port was armed and cleared
DeadlineArmedAndCleared ==
  /\ called
  /\ OutOfRange(opts.port)
  /\ timeoutId = 1
  /\ timers = {}
  /\ deferred.state = "rejected"

\* C14: a waitForStatus call whose inUse is missing or not a boolean is
\* rejected with the error 'inUse must be a boolean'; no deadline timer and
\* no retry timer is ever armed for it and no probe is ever started.
InUseMustBeBoolean ==
  (called /\ opts.inUse.t # "boolean") =>
    /\ deferred = Rejected(Error("inUse must be a boolean"))
    /\ settleCalls = 1
    /\ timers = {}
    /\ nextId = 1
    /\ timeoutId = 0
    /\ retryId = 0
    /\ checks = <<>>
    /\ jobs = <<>>

\* a call without inUse, some time after it was made
InUseMissingLater ==
  /\ called
  /\ opts.inUse = Undef
  /\ isPort(opts.port)
  /\ now > callAt

\* C15 (as claimed): waitUntilFree(options) takes the step of waitForStatus
\* with the same options and inUse = false, waitUntilUsed(options) the step
\* of waitForStatus with the same options and inUse = true.
WrappersOnlySetInUse ==
  [][~called =>
       \A shape \in {"obj", "args"}, a \in Args :
         /\ WaitUntilFree(shape, a) => Session([a EXCEPT !.inUse = Bool(FALSE)])
         /\ WaitUntilUsed(shape, a) => Session([a EXCEPT !.inUse = Bool(TRUE)])]_vars

\* C15: waitUntilFree(options) takes the step of waitForStatus with the same
\* options, host = '127.0.0.1' and inUse = false, and waitUntilUsed(options)
\* the step of waitForStatus with the same options, host = '127.0.0.1' and
\* inUse = true; a host or a desired status the caller put in the options
\* is overridden.  After the call the five functions share every step.
WrappersSetHostAndInUse ==
  [][~called =>
       \A shape \in {"obj", "args"}, a \in Args :
         /\ WaitUntilFree(shape, a) =>
              Session([a EXCEPT !.host = Str(LOCALHOST), !.inUse = Bool(FALSE)])
         /\ WaitUntilUsed(shape, a) =>
              Session([a EXCEPT !.host = Str(LOCALHOST), !.inUse = Bool(TRUE)])]_vars

\* both wrappers' sessions can succeed: waitUntilUsed on a connect,
\* waitUntilFree on a refused connection
WrapperSessionFulfilled ==
  /\ api \in {"waitUntilFree", "waitUntilUsed"}
  /\ deferred.state = "fulfilled"
  /\ \E i \in SessionChecks :
       checks[i].promise = Fulfilled(Bool(api = "waitUntilUsed"))

\* the session was started through waitUntilFree or waitUntilUsed
ViaLocalWrapper == api \in {"waitUntilFree", "waitUntilUsed"}

\* the value used for an interval the caller supplied as v
Used(v, default) == IF isPositiveInt(v) THEN v ELSE Num(default)

\* every probe of the session is addressed to the session's port and host
ProbesUseOpts ==
  \A i \in SessionChecks :
    checks[i].port = opts.port /\ checks[i].host = opts.host

\* C16 (as claimed): waitUntilFree(options) and waitUntilUsed(options) keep
\* the caller's host, port, retry interval and timeout, and every probe of
\* the session is addressed to the caller's port and host.
WrappersKeepCallerHost ==
  /\ [](ViaLocalWrapper => ProbesUseOpts)
  /\ [][~called =>
          \A a \in Args :
            (WaitUntilFree("obj", a) \/ WaitUntilUsed("obj", a)) =>
              /\ opts'.port = a.port
              /\ opts'.host = a.host
              /\ opts'.retryTimeMs = Used(a.retryTimeMs, RETRY_TIME)
              /\ opts'.timeOutMs = Used(a.timeOutMs, TIMEOUT)]_vars

\* C16: waitUntilFree(options) and waitUntilUsed(options) change the desired
\* status and the host: the port, retry interval and timeout the caller
\* supplied are the ones of the session, the host is '127.0.0.1' whatever
\* host the caller supplied, and every probe is addressed to that port on
\* '127.0.0.1'.
WrappersKeepAllButHost ==
  /\ [](ViaLocalWrapper =>
          ProbesUseOpts /\ opts.host = Str(LOCALHOST))
  /\ [][~called =>
          \A a \in Args :
            (WaitUntilFree("obj", a) \/ WaitUntilUsed("obj", a)) =>
              /\ opts'.port = a.port
              /\ opts'.host = Str(LOCALHOST)
              /\ opts'.retryTimeMs = Used(a.retryTimeMs, RETRY_TIME)
              /\ opts'.timeOutMs = Used(a.timeOutMs, TIMEOUT)]_vars

\* a wrapper's session with the caller's retry interval has probed twice
WrapperProbedTwice ==
  /\ ViaLocalWrapper
  /\ opts.retryTimeMs = Num(2)
  /\ Cardinality(SessionChecks) = 2
  /\ \A i \in SessionChecks : checks[i].host = Str(LOCALHOST)

\* the call check(...) of the given shape carries no host
HostAbsent(shape, host) ==
  \/ shape = "obj" /\ host = Absent
  \/ shape = "args" /\ host = Undef

\* C17 (as claimed): a check call without a host, with an options object or
\* with positional arguments, addresses its connection attempt to
\* '127.0.0.1'.
AbsentHostIsLocalhost ==
  [][\A shape \in {"obj", "args"}, port \in PortArgs, host \in {Undef, Absent} :
       (isPort(port) /\ HostAbsent(shape, host) /\ Check(shape, port, host)) =>
         /\ checks'[Len(checks')].sock = "connecting"
         /\ checks'[Len(checks')].host = Str(LOCALHOST)]_vars

\* the session's intervals after a call that supplied retryTimeMs and
\* timeOutMs as in a
IntervalsFrom(a) ==
  /\ opts'.retryTimeMs =
       IF a.retryTimeMs.t = "number" /\ a.retryTimeMs.n > 0
         THEN a.retryTimeMs ELSE Num(250)
  /\ opts'.timeOutMs =
       IF a.timeOutMs.t = "number" /\ a.timeOutMs.n > 0
         THEN a.timeOutMs ELSE Num(2000)

OutcomeOf(ev) ==
  IF ev.name = "connect" THEN Fulfilled(Bool(TRUE))
  ELSE IF ev.err.code = "ECONNREFUSED" THEN Fulfilled(Bool(FALSE))
  ELSE Rejected(ev.err)

\* check i was called with a valid port
Attempted(i) == i \in 1..Len(checks) /\ checks[i].sock # "none"

\* C19: a check call with a valid port produces exactly one outcome.  Its
\* promise is settled at most once; it is pending exactly as long as the
\* socket has emitted no event; the first event determines the outcome and
\* removes both listeners, so that no later event of the socket changes
\* anything; and once the connection attempt ends, the outcome is there.
ExactlyOneOutcome ==
  /\ [](\A i \in 1..Len(checks) :
          Attempted(i) =>
            /\ checks[i].calls <= 1
            /\ checks[i].promise.state = "pending" <=> checks[i].event = NoEvent
            /\ checks[i].event # NoEvent =>
                 /\ checks[i].promise = OutcomeOf(checks[i].event)
                 /\ checks[i].calls = 1
                 /\ checks[i].listeners = {})
  /\ [][\A i \in 1..Len(checks) :
          (Attempted(i) /\ checks[i].event # NoEvent) => checks'[i] = checks[i]]_vars
  /\ \A i \in 1..MaxChecks :
       [](Attempted(i) =>
            <>(Attempted(i) /\ checks[i].promise.state # "pending"))

\* a refused check after which a server starts listening: a connect of that
\* socket would find no listener
RefusedThenListening ==
  /\ listening
  /\ \E i \in 1..Len(checks) :
       /\ checks[i].event.name = "error"
       /\ checks[i].promise = Fulfilled(Bool(FALSE))
       /\ checks[i].listeners = {}

\* C20 (as claimed): on every resolution path of check the socket is torn
\* down (listeners removed, socket destroyed), and it was torn down already
\* when the promise was resolved or rejected.
TeardownBeforeSettlement ==
  \A i \in 1..Len(checks) :
    (Attempted(i) /\ checks[i].promise.state # "pending") =>
      /\ checks[i].listeners = {}
      /\ checks[i].sock = "destroyed"
      /\ checks[i].settledWhen = "destroyed"

\* C21 (as claimed): once the outer promise of a session is settled, by
\* success, probe error or timeout, no socket of a probe of the session is
\* still open or still has a listener attached.
NoSocketAfterSettlement ==
  Settled =>
    \A i \in SessionChecks :
      checks[i].sock # "connecting" /\ checks[i].listeners = {}

\* the direct check calls of the caller
CallerChecks == {i \in 1..Len(checks) : checks[i].owner = "caller"}

\* the timers armed by other calls
OtherTimers == {t \in timers : t.cb = "other"}

\* what belongs to the wait session: its locals, its timers, its probes and
\* the reactions queued for it
SessionState ==
  <<sessionVars, timers \ OtherTimers, [i \in SessionChecks |-> checks[i]], jobs>>

\* what belongs to the other calls: their check records and their timers
OthersState == <<[i \in CallerChecks |-> checks[i]], OtherTimers>>

CheckIdempotent ==
  /\ [][\A i \in 1..Len(checks) :
          (checks[i].promise.state = "pending" /\
           checks'[i].promise.state = "fulfilled") =>
            /\ checks'[i].promise.value = Bool(listening)
            /\ listening' = listening]_vars
  /\ [][checks' # checks => listening' = listening]_vars

\* two checks on a listening port, both resolved to true
TwoChecksSameAnswer ==
  /\ listening
  /\ Len(checks) = 2
  /\ \A i \in 1..2 : checks[i].promise = Fulfilled(Bool(TRUE))

\* C24: the first probe of a session is started within the waitForStatus
\* call itself: the step that makes the call arms the deadline timer with
\* the first handle, starts the first probe without the clock moving, and
\* leaves no retry timer armed and retryId unset.
FirstProbeWithinCall ==
  [][(~called /\ called' /\ opts'.inUse.t = "boolean") =>
       /\ now' = now
       /\ timeoutId' = nextId
       /\ timers' = timers \cup {[id |-> nextId, cb |-> "timeoutFunc",
                                   at |-> now + opts'.timeOutMs.n]}
       /\ Len(checks') = Len(checks) + 1
       /\ checks'[Len(checks')].owner = "session"
       /\ checks'[Len(checks')].port = opts'.port
       /\ RetryTimers' = {}
       /\ retryId' = 0]_vars

\* a session called at a later time, just after its call
JustCalled ==
  /\ called
  /\ callAt > 0
  /\ now = callAt
  /\ Cardinality(SessionChecks) = 1
  /\ InFlight # {}
  /\ Cardinality(timers) = 1
  /\ retryId = 0

\* the number of probes the session has started
Attempts == Cardinality(SessionChecks)

\* C25: the number of probes is not capped.  For every n up to the number
\* of probes followed, the n-th probe result, when it differs from the
\* desired status and the session is not timed out, leaves the outer
\* promise pending and arms the retry timer of attempt n+1; the retry timer
\* that fires after n attempts starts attempt n+1; and a session whose
\* probes all mismatched is ended by the deadline timer only.
AttemptsNotCapped ==
  /\ [][\A n \in 1..MaxProbes :
          (/\ Reaction
           /\ Attempts = n
           /\ checks[Head(jobs)].promise.state = "fulfilled"
           /\ checks[Head(jobs)].promise.value # opts.inUse
           /\ ~timedOut)
          => /\ deferred'.state = "pending"
             /\ Attempts' = n
             /\ \E t \in RetryTimers' : t.id = retryId' /\ t.id \notin {u.id : u \in timers}]_vars
  /\ [][\A n \in 1..MaxProbes : (RetryFunc /\ Attempts = n) => Attempts' = n + 1]_vars
  /\ [][(Running /\ AllMismatch /\ ~Settled /\ Settled') => TimeoutFunc]_vars

\* as many mismatching probes as the model follows, and the next attempt
\* is scheduled
LastFollowedAttemptRetried ==
  /\ Attempts = MaxProbes
  /\ AllMismatch
  /\ InFlight = {}
  /\ ~Settled
  /\ RetryTimers # {}

\* the caller's options object as it is now
CallerObject == IF caller.shared THEN opts ELSE caller.current

\* C26 (as claimed): after a call with an options object, the object's
\* fields have the values the caller gave them.
CallerObjectUntouched ==
  (called /\ caller.shape = "obj") => CallerObject = caller.given

\* the probes of the session for which a socket was created
SocketsOpened == {i \in SessionChecks : checks[i].sock # "none"}

\* C27: a check call with a valid port opens one connection attempt and
\* never retries: the call creates one socket, the socket's event destroys
\* it, and a destroyed socket is never connected again, whatever its event
\* was.  A session with a valid port has therefore opened as many sockets
\* as it has started probes, and every step starts at most one probe.
OneSocketPerCheck ==
  /\ [](\A i \in 1..Len(checks) :
          /\ checks[i].sock = "none" <=> ~isPort(checks[i].port)
          /\ checks[i].event # NoEvent => checks[i].sock = "destroyed")
  /\ [][\A i \in 1..Len(checks) :
          checks[i].sock = "destroyed" => checks'[i] = checks[i]]_vars
  /\ []((Running /\ isPort(opts.port)) =>
          Cardinality(SocketsOpened) = Attempts)
  /\ [][Len(checks') <= Len(checks) + 1]_vars

\* the second probe of a session failed with an error other than refused:
\* two probes, two sockets, both destroyed
TwoProbesTwoSockets ==
  /\ Attempts = 2
  /\ Cardinality(SocketsOpened) = 2
  /\ checks[1].promise = Fulfilled(Bool(FALSE))
  /\ checks[2].promise.state = "rejected"
  /\ \A i \in SessionChecks : checks[i].sock = "destroyed"

\* the probe result delivered in this step differs from the desired status
MismatchDelivered ==
  /\ Reaction
  /\ checks[Head(jobs)].promise.state = "fulfilled"
  /\ checks[Head(jobs)].promise.value # opts.inUse

\* C28: at most one probe of the session is in flight; while a probe is in
\* flight no retry timer is armed; while a retry timer is armed the session
\* is unsettled, every probe so far was answered with the opposite of the
\* desired status and its reaction has run; and the retry timer becomes
\* armed only by the delivery of a mismatching result and leaves the armed
\* state only by firing, which starts the next probe, or by the deadline.
ProbeOrRetryTimer ==
  /\ [](/\ Cardinality(InFlight) <= 1
        /\ ~(InFlight # {} /\ RetryTimers # {})
        /\ RetryTimers # {} =>
             /\ ~Settled
             /\ jobs = <<>>
             /\ \A i \in SessionChecks :
                  checks[i].promise = Fulfilled(Bool(opts.inUse = Bool(FALSE))))
  /\ [][(RetryTimers = {} /\ RetryTimers' # {}) => MismatchDelivered]_vars
  /\ [][(RetryTimers # {} /\ RetryTimers' = {}) =>
          \/ RetryFunc /\ Cardinality(InFlight') = 1
          \/ TimeoutFunc]_vars

\* between the third and the fourth probe: no probe in flight, the retry
\* timer armed, the deadline not reached
BetweenProbes ==
  /\ Attempts = 3
  /\ InFlight = {}
  /\ Cardinality(RetryTimers) = 1
  /\ now < DeadlineAt

\* C29: once the session has settled, by success, timeout, probe error or
\* the rejection of inUse, no step starts a probe: no check record is added
\* and no retry timer is armed that could start one.
NoProbeAfterSettlement ==
  [][Settled => /\ Attempts' = Attempts
                /\ Len(checks') = Len(checks)
                /\ RetryTimers' = {}]_vars

\* a session that succeeded with its second probe; afterwards the port's
\* status changed and no third probe was started
SucceededThenPortChanged ==
  /\ deferred = Fulfilled(Undef)
  /\ Attempts = 2
  /\ ~StatusDesired
  /\ timers = {}

\* the deadline timer as the call armed it
TheDeadlineTimer == [id |-> timeoutId, cb |-> "timeoutFunc", at |-> DeadlineAt]

\* C30: the deadline timer is armed once, by the call.  Its handle and its
\* expiry never change afterwards, whatever probe results and retries
\* follow; a step takes it out of the armed state only by firing on the
\* unsettled session or by clearing it in the reaction that settles the
\* session; and once it is not armed it is never armed again.
DeadlineArmedOnce ==
  /\ [](Running => DeadlineTimers \subseteq {TheDeadlineTimer})
  /\ [][called => /\ timeoutId' = timeoutId
                  /\ DeadlineTimers' \subseteq DeadlineTimers]_vars
  /\ [][(DeadlineTimers # {} /\ DeadlineTimers' = {}) =>
          \/ TimeoutFunc /\ ~Settled /\ now = DeadlineAt
          \/ Reaction /\ ~Settled /\ Settled']_vars
  /\ [][(DeadlineTimers = {} /\ DeadlineTimers' # {}) => ~called /\ called']_vars

\* a session called at a later time whose deadline timer is still armed,
\* unchanged, after three probes
DeadlineUnchangedAfterRetries ==
  /\ callAt > 0
  /\ Attempts = 3
  /\ DeadlineTimers = {TheDeadlineTimer}
  /\ RetryTimers # {}

\* the model has stopped following the session: MaxProbes probes were
\* started and the retry timer of the next one has expired
ProbesExhausted ==
  /\ Attempts = MaxProbes
  /\ \E t \in RetryTimers : t.at <= now

\* C31: every session that passed the validation of inUse eventually
\* settles when armed timers fire, whether its probes are answered or not;
\* a session that settled while a probe was still unanswered was rejected
\* with 'timeout'.
SessionEventuallySettles ==
  /\ [](Running => <>(Settled \/ ProbesExhausted))
  /\ []((Settled /\ InFlight # {}) => deferred = TimeoutError /\ timedOut)

\* the first probe was never answered and the default timeout has ended
\* the session
HangingProbeTimedOut ==
  /\ deferred = TimeoutError
  /\ opts.timeOutMs = Num(TIMEOUT)
  /\ now = callAt + TIMEOUT
  /\ Attempts = 1
  /\ InFlight = {1}


\* C32: check has no timeout of its own.  As long as its socket has emitted
\* no event the promise is pending and the socket is connecting with both
\* listeners attached, however much time passes; the only step that changes
\* any of this is the connect or the error event of that socket; and check
\* arms no timer.
CheckHasNoTimeout ==
  /\ [](\A i \in 1..Len(checks) :
          (Attempted(i) /\ checks[i].event = NoEvent) =>
            /\ checks[i].promise = Pending
            /\ checks[i].sock = "connecting"
            /\ checks[i].listeners = {"connect", "error"})
  /\ [][\A i \in 1..Len(checks) :
          (Attempted(i) /\ checks'[i] # checks[i]) =>
            /\ checks[i].event = NoEvent
            /\ SocketEvent(i)]_vars
  /\ [](\A t \in timers : t.id \in {timeoutId, retryId})

\* a probe still unanswered after the session's deadline has passed
ProbePendingPastDeadline ==
  /\ timedOut
  /\ now > DeadlineAt
  /\ \E i \in SessionChecks :
       checks[i].promise = Pending /\ checks[i].sock = "connecting"

\* the desired status the session was called with: the caller's for
\* waitForStatus, the wrapper's own otherwise
StatusAtCall ==
  IF api = "waitForStatus" THEN caller.given.inUse
  ELSE Bool(api = "waitUntilUsedOnHost")

\* C33 (as claimed): the parameters of a running session are those of the
\* call, whatever is written to the caller's options object afterwards:
\* the session keeps the desired status, port, host and retry interval it
\* was called with, every probe is addressed to that port and host, and the
\* session succeeds only on a probe result equal to that desired status.
ParametersFixedAtCall ==
  (called /\ caller.shape = "obj" /\ isBool(StatusAtCall)) =>
    /\ opts.inUse = StatusAtCall
    /\ opts.port = caller.given.port
    /\ opts.host = caller.given.host
    /\ opts.retryTimeMs = caller.given.retryTimeMs
    /\ \A i \in SessionChecks :
         /\ checks[i].port = caller.given.port
         /\ checks[i].host = caller.given.host
    /\ deferred.state = "fulfilled" =>
         \E i \in SessionChecks : checks[i].promise = Fulfilled(StatusAtCall)

\* the rejection of a call whose inUse is no boolean
InUseError == Rejected(Error("inUse must be a boolean"))

\* C34: a waitForStatus call whose inUse and port are both invalid is
\* rejected with 'inUse must be a boolean' and never with the invalid-port
\* error: no check call is made for it.  The port is validated inside the
\* probe only: the call itself rejects with nothing but the inUse error,
\* and an invalid-port rejection is that of the session's first check,
\* delivered by a reaction after the call.
InUseErrorBeforePortError ==
  /\ []((called /\ opts.inUse.t # "boolean" /\ ~isPort(opts.port)) =>
          deferred = InUseError /\ checks = <<>>)
  /\ [][(~called /\ called') => deferred' \in {Pending, InUseError}]_vars
  /\ []((Running /\ ~isPort(opts.port) /\ Settled /\ ~timedOut) =>
          /\ Attempts = 1
          /\ deferred = Rejected(invalidPort(opts.port))
          /\ deferred = checks[1].promise)

\* a call with a port that is no number and without inUse
BothInvalid ==
  /\ called
  /\ opts.port = Str("hello")
  /\ opts.inUse = Undef
  /\ deferred = InUseError

\* C35: the retry interval is counted from the delivery of the mismatching
\* result.  Attempt k+1 starts exactly opts.retryTimeMs after attempt k was
\* answered, so that the starts of two consecutive attempts are the
\* duration of attempt k plus opts.retryTimeMs apart; and an armed retry
\* timer expires opts.retryTimeMs after the answer of the last attempt.
RetryCountedFromResult ==
  /\ \A k \in SessionChecks :
       /\ checks[k].startedAt >= callAt
       /\ checks[k].answeredAt >= 0 => checks[k].answeredAt >= checks[k].startedAt
       /\ (k + 1) \in SessionChecks =>
            /\ checks[k + 1].startedAt = checks[k].answeredAt + opts.retryTimeMs.n
            /\ checks[k + 1].startedAt - checks[k].startedAt =
                 (checks[k].answeredAt - checks[k].startedAt) + opts.retryTimeMs.n
  /\ \A t \in RetryTimers :
       t.at = checks[Attempts].answeredAt + opts.retryTimeMs.n

\* the first probe took two milliseconds, the second one started one retry
\* interval after its answer
SlowProbeThenRetry ==
  /\ Attempts = 2
  /\ checks[1].answeredAt = checks[1].startedAt + 2
  /\ opts.retryTimeMs = Num(1)
  /\ checks[2].startedAt = checks[1].startedAt + 3

====
